---- MODULE Spec2Model ----
(***************************************************************************)
(* Model of src/email_parser.py: the EmailParser collector (deduplication, *)
(* batching, exclusion, near-duplicate matching) driven by process_path    *)
(* over a run of CSV files followed by HTML files.                         *)
(*                                                                         *)
(* An address is a sequence of one-character strings.  The empty string    *)
(* "" of the code is the empty sequence << >>.  A similarity is the exact  *)
(* rational <<n, d>> = n/d percent; a threshold is an integer number of    *)
(* hundredths of a percent.                                                *)
(***************************************************************************)
EXTENDS Integers, Sequences, FiniteSets, TLC

\* ------------------------------------------------------------------ bounds
MaxSeen == 4        \* candidates produced by the grammar over the whole run
MaxFiles == 2       \* source files visited by process_path
batch_size == 2     \* self.batch_size (20 in the code), scaled down
MaxFragment == 5    \* characters of a text fragment given to the patterns
MaxEvents == 5      \* events given to EmailHTMLParser

\* ------------------------------------------------------------------ inputs
e_abc == <<"a", "@", "b", ".", "c">>
e_Abc == <<"A", "@", "b", ".", "c">>
e_abd == <<"a", "@", "b", ".", "d">>
e_xyz == <<"x", "@", "y", ".", "z">>
e_aabc == <<"a", "a", "@", "b", ".", "c">>

\* the candidate strings the grammar yields in this model
Emails == {e_abc, e_Abc, e_abd, e_xyz, e_aabc}

\* --similarity values, in hundredths of a percent
Thresholds == {0 - 500, 0, 8000, 8001, 9000}

\* first-column values of the rows of the exclude file
ExcludeRows == {e_Abc, e_xyz}

\* ------------------------------------------------------------- str.lower()
LowerChar(c) ==
    CASE c = "A" -> "a"
      [] c = "B" -> "b"
      [] c = "C" -> "c"
      [] c = "D" -> "d"
      [] c = "X" -> "x"
      [] c = "Y" -> "y"
      [] c = "Z" -> "z"
      [] OTHER -> c

lower(s) == [i \in 1..Len(s) |-> LowerChar(s[i])]

\* the member of a one-element set; "The({F(x) : x \in {e}})" evaluates e once
\* and names its value x
The(S) == CHOOSE x \in S : TRUE

\* ------------------------------------------------- email_pattern.findall()
\* The pattern, for text without quotation marks and brackets: a dot-atom
\* local part, "@", and a domain of two or more labels joined by dots.
\* ignore_case is TRUE for the pattern compiled with re.IGNORECASE.

\* the characters of [a-z0-9] that occur in this model
LowerAlnum ==
    {"a", "b", "c", "d", "e", "q", "x", "y", "z",
     "0", "1", "2", "3", "4", "5", "6", "7", "8", "9"}

\* the other characters of [a-z0-9!#$%&'*+/=?^_`{|}~-], but for the
\* backquote, which no text of this model holds
AtextSpecials ==
    {"!", "#", "$", "%", "&", "'", "*", "+", "/", "=", "?", "^", "_",
     "{", "|", "}", "~", "-"}

\* c matches [a-z0-9]
is_alnum(c, ignore_case) ==
    c \in LowerAlnum \/ (ignore_case /\ LowerChar(c) \in LowerAlnum)

\* c matches [a-z0-9!#$%&'*+/=?^_`{|}~-]
is_atext(c, ignore_case) == is_alnum(c, ignore_case) \/ c \in AtextSpecials

\* the end of the label [a-z0-9](?:[a-z0-9-]*[a-z0-9])? that starts at p, taken
\* as long as it can be; 0 when no label starts at p
label_end(s, p, ignore_case) ==
    IF p > Len(s) \/ ~is_alnum(s[p], ignore_case) THEN 0
    ELSE LET ends == {e \in p..Len(s) :
                         /\ is_alnum(s[e], ignore_case)
                         /\ \A i \in p..e :
                                is_alnum(s[i], ignore_case) \/ s[i] = "-"}
         IN CHOOSE e \in ends : \A f \in ends : f <= e

\* the end of the domain (?:label\.)+label when n labels followed by a dot are
\* matched and the next label starts at p; 0 when there is no match
RECURSIVE domain_end(_, _, _, _)
domain_end(s, p, ignore_case, n) ==
    The({IF e = 0 THEN 0
         ELSE IF e + 1 <= Len(s) /\ s[e + 1] = "."
         THEN The({IF r > 0 THEN r ELSE IF n >= 1 THEN e ELSE 0 :
                   r \in {domain_end(s, e + 2, ignore_case, n + 1)}})
         ELSE IF n >= 1 THEN e ELSE 0 :
         e \in {label_end(s, p, ignore_case)}})

\* s[lo..hi] matches atext+(?:\.atext+)*
is_dot_atom(s, lo, hi, ignore_case) ==
    /\ lo <= hi
    /\ s[lo] # "."
    /\ s[hi] # "."
    /\ \A i \in lo..hi : is_atext(s[i], ignore_case) \/ s[i] = "."
    /\ \A i \in lo..(hi - 1) : ~(s[i] = "." /\ s[i + 1] = ".")

\* the end of the match of the pattern that starts at start, 0 when there is
\* none: the local part runs up to the next "@"
match_end(s, start, ignore_case) ==
    LET ats == {i \in start..Len(s) : s[i] = "@"}
    IN IF ats = {} THEN 0
       ELSE The({IF is_dot_atom(s, start, at - 1, ignore_case)
                 THEN domain_end(s, at + 1, ignore_case, 0)
                 ELSE 0 :
                 at \in {CHOOSE i \in ats : \A j \in ats : i <= j}})

\* the non-overlapping matches from position pos on, left to right
RECURSIVE find_from(_, _, _)
find_from(s, pos, ignore_case) ==
    IF pos > Len(s) THEN << >>
    ELSE The({IF e > 0
              THEN <<SubSeq(s, pos, e)>> \o find_from(s, e + 1, ignore_case)
              ELSE find_from(s, pos + 1, ignore_case) :
              e \in {match_end(s, pos, ignore_case)}})

\* self.email_pattern.findall(text)
findall(text, ignore_case) == find_from(text, 1, ignore_case)

\* the addresses a CSV cell can yield (pattern of line 59) and those an HTML
\* document can yield (pattern of line 20, re.IGNORECASE)
CsvCandidates == {e \in Emails : findall(e, FALSE) = <<e>>}
HtmlCandidates == {e \in Emails : findall(e, TRUE) = <<e>>}

\* the text fragments given to both patterns
FragmentChars == {"a", "A", "b", "@", "."}

Fragments == UNION {[1..n -> FragmentChars] : n \in 1..MaxFragment}

\* ------------------------------------------ difflib.SequenceMatcher.ratio()
\* length of the common run of a[i..ahi-1] and b[j..bhi-1]
RECURSIVE RunLen(_, _, _, _, _, _)
RunLen(a, b, i, j, ahi, bhi) ==
    IF i < ahi /\ j < bhi /\ a[i] = b[j]
    THEN 1 + RunLen(a, b, i + 1, j + 1, ahi, bhi)
    ELSE 0

\* longest matching block in a[alo..ahi-1], b[blo..bhi-1]; of the longest ones
\* the one starting earliest in a, and of those the one starting earliest in b
find_longest_match(a, b, alo, ahi, blo, bhi) ==
    LET starts == (alo..(ahi - 1)) \X (blo..(bhi - 1))
        runs == {<<p[1], p[2], RunLen(a, b, p[1], p[2], ahi, bhi)>> : p \in starts}
    IN CHOOSE m \in runs :
           \A q \in runs :
               \/ m[3] > q[3]
               \/ /\ m[3] = q[3]
                  /\ \/ m[1] < q[1]
                     \/ m[1] = q[1] /\ m[2] <= q[2]

\* total size of the matching blocks (Ratcliff/Obershelp recursion)
RECURSIVE matching_size(_, _, _, _, _, _)
matching_size(a, b, alo, ahi, blo, bhi) ==
    IF alo >= ahi \/ blo >= bhi THEN 0
    ELSE The({IF m[3] = 0 THEN 0
              ELSE m[3] + matching_size(a, b, alo, m[1], blo, m[2])
                        + matching_size(a, b, m[1] + m[3], ahi, m[2] + m[3], bhi) :
              m \in {find_longest_match(a, b, alo, ahi, blo, bhi)}})

\* SequenceMatcher(None, email1.lower(), email2.lower()).ratio() * 100
\* as the rational <<200 * M, T>>
calculate_similarity(email1, email2) ==
    LET a == lower(email1)
        b == lower(email2)
        T == Len(a) + Len(b)
    IN IF T = 0 THEN <<100, 1>>
       ELSE <<200 * matching_size(a, b, 1, Len(a) + 1, 1, Len(b) + 1), T>>

\* the scores of all pairs of addresses, as a table computed once
SimTable ==
    [p \in Emails \X Emails |-> calculate_similarity(p[1], p[2])] @@ << >>

Similarity(email1, email2) == SimTable[<<email1, email2>>]

\* -------------------------------------------------- comparisons of scores
ZeroSim == <<0, 1>>

\* similarity > highest_similarity
SimGreater(s, h) == s[1] * h[2] > h[1] * s[2]

\* similarity >= self.similarity_threshold
MeetsThreshold(s, th) == s[1] * 100 >= th * s[2]

\* f"{similarity:.2f}", as a number of hundredths
Format2f(s) == (2 * 100 * s[1] + s[2]) \div (2 * s[2])

\* ------------------------------------------------------------------ state
VARIABLES
    unique_emails,          \* self.unique_emails: case-folded addresses
    current_batch,          \* self.current_batch: queued addresses
    all_emails,             \* self.all_emails: addresses written so far
    processed_count,        \* self.processed_count
    excluded_emails,        \* self.excluded_emails: case-folded addresses
    similarity_threshold,   \* self.similarity_threshold, in hundredths
    report,                 \* the rows appended to self.output_file
    pc,                     \* "idle" between files, "csv" or "html" in a scan
    file_no,                \* number of the file being (or last) processed
    html_phase,             \* TRUE once process_path is in its HTML loop
    html_emails,            \* parser.emails still to be iterated
    seen,                   \* history: candidates produced by the grammar
    pools,                  \* history: pools[i] is the pool scanned for row i
    last_end,               \* history: how the last file scan ended
    accepted,               \* history: first occurrences, with their file
    aborted,                \* TRUE once an exception left process_path
    first_failure,          \* history: rows and candidates at the first
                            \* failed write, << >> before
    load_failed,            \* history: load_excluded_emails caught an error
    scored,                 \* argument of calculate_malformation_probability
    probability,            \* its result, in tenths
    fragment,               \* a text fragment given to both patterns
    csv_found,              \* EmailParser.email_pattern.findall(fragment)
    html_found,             \* EmailHTMLParser.email_pattern.findall(fragment)
    in_pre,                 \* EmailHTMLParser.in_pre
    current_pre_content,    \* EmailHTMLParser.current_pre_content
    parser_emails,          \* EmailHTMLParser.emails
    open_pre,               \* history: text received since each open <pre>
    pre_unit,               \* history: what the last matched </pre> scanned
                            \* and what it should have, << >> before
    events                  \* history: number of parser events so far

\* the collector and process_path
run_vars == <<unique_emails, current_batch, all_emails, processed_count,
              excluded_emails, similarity_threshold, report, pc, file_no,
              html_phase, html_emails, seen, pools, last_end, accepted>>

io_vars == <<aborted, first_failure>>

load_vars == <<load_failed>>

score_vars == <<scored, probability>>

grammar_vars == <<fragment, csv_found, html_found>>

parser_vars == <<in_pre, current_pre_content, parser_emails, open_pre,
                 pre_unit, events>>

vars == <<run_vars, io_vars, load_vars, score_vars, grammar_vars, parser_vars>>

\* -------------------------------------------------------- the tests of the code
NotSelf_always(existing, email) == TRUE

\* existing_email != email, batch_email != email
NotSelf(existing, email) == existing # email

Improves_last_wins(similarity, highest, th) ==
    ~SimGreater(highest, similarity) /\ MeetsThreshold(similarity, th)

\* similarity > highest_similarity and similarity >= self.similarity_threshold
Improves(similarity, highest, th) ==
    SimGreater(similarity, highest) /\ MeetsThreshold(similarity, th)

is_excluded_cased(email, excl) == email \in excl

\* email.lower() in self.excluded_emails
is_excluded(email, excl) == lower(email) \in excl

is_unique_cased(email, uniq) == email \notin uniq

is_unique_always(email, uniq) == TRUE

\* email.lower() not in self.unique_emails
is_unique(email, uniq) == lower(email) \notin uniq

batch_entry_lower(email) == lower(email)

\* self.current_batch.append(email): the address as found
batch_entry(email) == email

batch_full_strict(batch) == Len(batch) > batch_size

\* len(self.current_batch) >= self.batch_size
batch_full(batch) == Len(batch) >= batch_size

\* ----------------------------------------- calculate_malformation_probability
\* penalties, in tenths
NoSuffixPenalty == 4
LongSuffixPenalty == 2
SubdomainPenalty == 1
LocalLengthPenalty == 1
SpecialsPenalty == 1
MaxProbability == 10

\* the limits of the checks
SuffixLimit == 6
DomainPartsLimit == 4
LocalPartLimit == 64

\* the characters of the class [._%+-]
SpecialChars == {".", "_", "%", "+", "-"}

\* the public suffixes of the dataset tldextract consults, as label sequences
PublicSuffixes ==
    {<< <<"c", "o", "m">> >>,
     << <<"u", "k">> >>,
     << <<"c", "o">>, <<"u", "k">> >>,
     << <<"m", "u", "s", "e", "u", "m">> >>,
     << <<"t", "e", "c", "h", "n", "o", "l", "o", "g", "y">> >>}

\* positions of sep in s
Positions(s, sep) == {i \in 1..Len(s) : s[i] = sep}

Min(S) == CHOOSE x \in S : \A y \in S : x <= y

\* s.split(sep)
RECURSIVE split(_, _)
split(s, sep) ==
    IF Positions(s, sep) = {} THEN <<s>>
    ELSE The({<<SubSeq(s, 1, i - 1)>> \o split(SubSeq(s, i + 1, Len(s)), sep) :
              i \in {Min(Positions(s, sep))}})

\* len(".".join(labels))
RECURSIVE joined_len(_)
joined_len(labels) ==
    IF labels = << >> THEN 0
    ELSE IF Len(labels) = 1 THEN Len(labels[1])
    ELSE Len(labels[1]) + 1 + joined_len(Tail(labels))

\* tldextract.extract(email).suffix, as labels: the longest tail of the host's
\* labels that is a public suffix, << >> when there is none; the host is what
\* follows the last "@", case-folded
suffix_of(email) ==
    LET pieces == split(lower(email), "@")
        labels == split(pieces[Len(pieces)], ".")
        tails == {k \in 1..Len(labels) :
                     SubSeq(labels, k, Len(labels)) \in PublicSuffixes}
    IN IF tails = {} THEN << >>
       ELSE SubSeq(labels, Min(tails), Len(labels))

\* "if not ext.suffix ... elif len(ext.suffix) > 6"
tld_penalty(email) ==
    IF suffix_of(email) = << >> THEN NoSuffixPenalty
    ELSE IF joined_len(suffix_of(email)) > SuffixLimit THEN LongSuffixPenalty
    ELSE 0

\* len(email.split('@')[1].split('.')) > 4
subdomain_penalty(email) ==
    IF Len(split(split(email, "@")[2], ".")) > DomainPartsLimit
    THEN SubdomainPenalty ELSE 0

\* email.split('@')[0]
local_part(email) == split(email, "@")[1]

\* len(local_part) > 64
local_length_penalty(email) ==
    IF Len(local_part(email)) > LocalPartLimit THEN LocalLengthPenalty ELSE 0

\* re.search(r'[._%+-]{2,}', local_part)
has_consecutive_specials(local) ==
    \E i \in 1..(Len(local) - 1) :
        local[i] \in SpecialChars /\ local[i + 1] \in SpecialChars

specials_penalty(email) ==
    IF has_consecutive_specials(local_part(email)) THEN SpecialsPenalty ELSE 0

calculate_malformation_probability_overwrite(email) ==
    IF specials_penalty(email) > 0 THEN specials_penalty(email)
    ELSE IF local_length_penalty(email) > 0 THEN local_length_penalty(email)
    ELSE IF subdomain_penalty(email) > 0 THEN subdomain_penalty(email)
    ELSE tld_penalty(email)

\* the sum of the penalties, "return min(probability, 1.0)"
calculate_malformation_probability(email) ==
    Min({MaxProbability,
         tld_penalty(email) + subdomain_penalty(email)
             + local_length_penalty(email) + specials_penalty(email)})

\* the addresses given to the scorer: every local part with every domain
Rep(c, n) == [i \in 1..n |-> c]

ScoreLocals ==
    {<<"a">>,
     <<"a", ".", "b">>,
     <<"a", ".", ".", "b">>,
     <<"a", "_", "-", "b">>,
     <<"a", "+", "b">>,
     <<"a", "%", "+", "b", ".", "c">>,
     Rep("a", 63),
     Rep("a", 64),
     Rep("a", 65),
     Rep("a", 62) \o <<".", "b">>,
     Rep("a", 62) \o <<".", ".", "b">>,
     Rep("a", 61) \o <<".", ".", "b">>}

ScoreDomains ==
    {<<"b", ".", "c", "o", "m">>,
     <<"b", ".", "q">>,
     <<"b", ".", "c", "o", ".", "u", "k">>,
     <<"b", ".", "m", "u", "s", "e", "u", "m">>,
     <<"b", ".", "t", "e", "c", "h", "n", "o", "l", "o", "g", "y">>,
     <<"a", ".", "b", ".", "c", ".", "c", "o", "m">>,
     <<"a", ".", "b", ".", "c", ".", "d", ".", "c", "o", "m">>,
     <<"a", ".", "b", ".", "c", ".", "d", ".", "q">>,
     <<"a", ".", "b", ".", "c", ".", "q">>,
     <<"a", ".", "b", ".", "c", ".", "d", ".",
       "t", "e", "c", "h", "n", "o", "l", "o", "g", "y">>}

ScoreInputs == {l \o <<"@">> \o d : l \in ScoreLocals, d \in ScoreDomains}

\* ------------------------------------------------------- find_similar_email
\* one of the two loops of find_similar_email over pool, from index i on
RECURSIVE scan_pool(_, _, _, _, _)
scan_pool(email, pool, i, best, th) ==
    IF i > Len(pool) THEN best
    ELSE LET existing == pool[i]
             similarity == Similarity(email, existing)
         IN The({scan_pool(email, pool, i + 1, step, th) :
                 step \in {IF NotSelf(existing, email)
                               /\ Improves(similarity, best.sim, th)
                            THEN [email |-> existing, sim |-> similarity]
                            ELSE best}})

\* returns (most_similar_email, highest_similarity)
find_similar_email(email, all, batch, th) ==
    LET start == [email |-> << >>, sim |-> ZeroSim]
        after_all == scan_pool(email, all, 1, start, th)
    IN scan_pool(email, batch, 1, after_all, th)

\* ------------------------------------------------------------ process_batch
\* the row written by writer.writerow for email
make_row(email, all, batch, th, source_file) ==
    LET r == find_similar_email(email, all, batch, th)
    IN [email |-> email,
        malformation |-> calculate_malformation_probability(email),
        similar |-> IF MeetsThreshold(r.sim, th) THEN r.email ELSE << >>,
        pct |-> IF MeetsThreshold(r.sim, th) THEN <<Format2f(r.sim)>> ELSE << >>,
        source |-> source_file]

\* the loop of process_batch from index i to index stop; st holds all_emails,
\* the report, processed_count and the pools scanned
RECURSIVE flush_from(_, _, _, _, _, _, _)
flush_from(i, stop, batch, st, excl, th, source_file) ==
    IF i > stop THEN st
    ELSE LET email == batch[i]
         IN The({flush_from(i + 1, stop, batch, next, excl, th, source_file) :
                 next \in {IF is_excluded(email, excl)
                            THEN [st EXCEPT !.count = @ + 1]
                            ELSE [all |-> Append(st.all, email),
                                  report |-> Append(st.report,
                                      make_row(email, st.all, batch, th,
                                               source_file)),
                                  count |-> st.count + 1,
                                  pools |-> Append(st.pools, st.all \o batch)]}})

process_batch(batch, all, rep, count, pls, excl, th, source_file) ==
    flush_from(1, Len(batch), batch,
               [all |-> all, report |-> rep, count |-> count, pools |-> pls],
               excl, th, source_file)

\* process_batch when the write of entry done + 1 raises (done = 0: open
\* raises; done = Len(batch): closing the file raises)
process_batch_fails(batch, done, all, rep, count, pls, excl, th, source_file) ==
    flush_from(1, done, batch,
               [all |-> all, report |-> rep, count |-> count, pools |-> pls],
               excl, th, source_file)

\* ------------------------------------------------------------------- Init
\* the variables outside the collector, before anything ran
InitOther ==
    /\ aborted = FALSE
    /\ first_failure = << >>
    /\ load_failed = FALSE
    /\ scored = << >>
    /\ probability = 0
    /\ fragment = << >>
    /\ csv_found = << >>
    /\ html_found = << >>
    /\ in_pre = FALSE
    /\ current_pre_content = << >>
    /\ parser_emails = {}
    /\ open_pre = << >>
    /\ pre_unit = << >>
    /\ events = 0

other_vars == <<io_vars, load_vars, score_vars, grammar_vars, parser_vars>>

\* EmailParser.__init__ up to the call of load_excluded_emails
InitCollector ==
    /\ unique_emails = {}
    /\ current_batch = << >>
    /\ all_emails = << >>
    /\ processed_count = 0
    /\ similarity_threshold \in Thresholds
    /\ report = << >>
    /\ file_no = 0
    /\ html_phase = FALSE
    /\ html_emails = {}
    /\ seen = 0
    /\ pools = << >>
    /\ last_end = "none"
    /\ accepted = {}
    /\ InitOther

\* the state after construction, the exclude list loaded without an error
Init ==
    /\ InitCollector
    /\ \E rows \in SUBSET ExcludeRows :
           excluded_emails = {lower(r) : r \in rows}
    /\ pc = "idle"

\* ------------------------------------------------------ load_excluded_emails
\* the state when load_excluded_emails is entered
InitLoad ==
    /\ InitCollector
    /\ excluded_emails = {}
    /\ pc = "load"

\* one non-empty row of the exclude file: its first column, case-folded, is
\* added (an empty row changes nothing)
LoadRow ==
    /\ pc = "load"
    /\ \E row \in ExcludeRows :
           /\ lower(row) \notin excluded_emails
           /\ excluded_emails' = excluded_emails \cup {lower(row)}
    /\ UNCHANGED <<unique_emails, current_batch, all_emails, processed_count,
                   similarity_threshold, report, pc, file_no, html_phase,
                   html_emails, seen, pools, last_end, accepted>>
    /\ UNCHANGED other_vars

\* the reader is exhausted (or no exclude list was given)
LoadEnd ==
    /\ pc = "load"
    /\ pc' = "idle"
    /\ UNCHANGED <<unique_emails, current_batch, all_emails, processed_count,
                   excluded_emails, similarity_threshold, report, file_no,
                   html_phase, html_emails, seen, pools, last_end, accepted>>
    /\ UNCHANGED other_vars

\* open or the reader raises, before any row or after some: the except clause
\* prints the warning and leaves self.excluded_emails as it is
LoadError ==
    /\ pc = "load"
    /\ pc' = "idle"
    /\ load_failed' = TRUE
    /\ UNCHANGED <<unique_emails, current_batch, all_emails, processed_count,
                   excluded_emails, similarity_threshold, report, file_no,
                   html_phase, html_emails, seen, pools, last_end, accepted>>
    /\ UNCHANGED <<io_vars, score_vars, grammar_vars, parser_vars>>

\* ---------------------------------------------------------------- actions
\* the body of "for email in found_emails" / "for email in parser.emails"
candidate_step(email) ==
    LET counted == processed_count + 1
    IN /\ seen' = seen + 1
       /\ IF is_unique(email, unique_emails)
          THEN LET queued == Append(current_batch, batch_entry(email))
               IN /\ unique_emails' = unique_emails \cup {lower(email)}
                  /\ accepted' = accepted \cup
                                    {[email |-> email, file |-> file_no]}
                  /\ IF batch_full(queued)
                     THEN LET st == process_batch(queued, all_emails, report,
                                        counted, pools, excluded_emails,
                                        similarity_threshold, file_no)
                          IN /\ all_emails' = st.all
                             /\ report' = st.report
                             /\ processed_count' = st.count
                             /\ pools' = st.pools
                             /\ current_batch' = << >>
                     ELSE /\ current_batch' = queued
                          /\ processed_count' = counted
                          /\ UNCHANGED <<all_emails, report, pools>>
          ELSE /\ processed_count' = counted
               /\ UNCHANGED <<unique_emails, current_batch, all_emails, report,
                              pools, accepted>>

finish_file_noflush(how) ==
    /\ pc' = "idle"
    /\ last_end' = how
    /\ UNCHANGED <<all_emails, report, processed_count, pools, current_batch>>

\* process_path after parse_file returned: "if self.current_batch:
\* self.process_batch(file_path)"
finish_file(how) ==
    /\ IF current_batch # << >>
       THEN LET st == process_batch(current_batch, all_emails, report,
                          processed_count, pools, excluded_emails,
                          similarity_threshold, file_no)
            IN /\ all_emails' = st.all
               /\ report' = st.report
               /\ processed_count' = st.count
               /\ pools' = st.pools
               /\ current_batch' = << >>
       ELSE UNCHANGED <<all_emails, report, processed_count, pools,
                        current_batch>>
    /\ pc' = "idle"
    /\ last_end' = how

\* process_path takes the next file of csv_files
StartCsv ==
    /\ ~aborted
    /\ pc = "idle"
    /\ ~html_phase
    /\ file_no < MaxFiles
    /\ pc' = "csv"
    /\ file_no' = file_no + 1
    /\ UNCHANGED <<unique_emails, current_batch, all_emails, processed_count,
                   excluded_emails, similarity_threshold, report, html_phase,
                   html_emails, seen, pools, last_end, accepted>>
    /\ UNCHANGED other_vars

\* parse_csv_file: one address found in one field
CsvCandidate ==
    /\ ~aborted
    /\ pc = "csv"
    /\ seen < MaxSeen
    /\ \E email \in CsvCandidates : candidate_step(email)
    /\ UNCHANGED <<excluded_emails, similarity_threshold, pc, file_no,
                   html_phase, html_emails, last_end>>
    /\ UNCHANGED other_vars

\* parse_csv_file: the reader is exhausted
CsvEnd ==
    /\ ~aborted
    /\ pc = "csv"
    /\ finish_file("eof")
    /\ UNCHANGED <<unique_emails, excluded_emails, similarity_threshold,
                   file_no, html_phase, html_emails, seen, accepted>>
    /\ UNCHANGED other_vars

\* parse_csv_file: reading raises, the exception is caught and printed
CsvReadError ==
    /\ ~aborted
    /\ pc = "csv"
    /\ finish_file("error")
    /\ UNCHANGED <<unique_emails, excluded_emails, similarity_threshold,
                   file_no, html_phase, html_emails, seen, accepted>>
    /\ UNCHANGED other_vars

\* parse_html_file: the file is read and fed to EmailHTMLParser, which leaves
\* the set parser.emails
StartHtml ==
    /\ ~aborted
    /\ pc = "idle"
    /\ file_no < MaxFiles
    /\ \E found \in SUBSET HtmlCandidates :
           /\ Cardinality(found) <= MaxSeen - seen
           /\ html_emails' = found
    /\ pc' = "html"
    /\ html_phase' = TRUE
    /\ file_no' = file_no + 1
    /\ UNCHANGED <<unique_emails, current_batch, all_emails, processed_count,
                   excluded_emails, similarity_threshold, report, seen, pools,
                   last_end, accepted>>
    /\ UNCHANGED other_vars

\* parse_html_file: open, read or feed raises before any address is iterated
HtmlReadError ==
    /\ ~aborted
    /\ pc = "idle"
    /\ file_no < MaxFiles
    /\ html_phase' = TRUE
    /\ file_no' = file_no + 1
    /\ finish_file("error")
    /\ UNCHANGED <<unique_emails, excluded_emails, similarity_threshold,
                   html_emails, seen, accepted>>
    /\ UNCHANGED other_vars

\* parse_html_file: one address of parser.emails, in the set's own order
HtmlCandidate ==
    /\ ~aborted
    /\ pc = "html"
    /\ \E email \in html_emails :
           /\ candidate_step(email)
           /\ html_emails' = html_emails \ {email}
    /\ UNCHANGED <<excluded_emails, similarity_threshold, pc, file_no,
                   html_phase, last_end>>
    /\ UNCHANGED other_vars

\* parse_html_file: parser.emails is exhausted
HtmlEnd ==
    /\ ~aborted
    /\ pc = "html"
    /\ html_emails = {}
    /\ finish_file("eof")
    /\ UNCHANGED <<unique_emails, excluded_emails, similarity_threshold,
                   file_no, html_phase, html_emails, seen, accepted>>
    /\ UNCHANGED other_vars

\* ------------------------------------------------- output write failures
\* what the first failed write leaves in first_failure
note_failure(rows, candidates) ==
    IF first_failure = << >>
    THEN [rows |-> rows, seen |-> candidates]
    ELSE first_failure

\* the body of the candidate loop when the address is new, the batch is full
\* and process_batch raises after `done` entries: line 102 is not reached, so
\* the batch keeps its entries
candidate_step_fails(email, done) ==
    LET counted == processed_count + 1
        queued == Append(current_batch, batch_entry(email))
        st == process_batch_fails(queued, done, all_emails, report, counted,
                                  pools, excluded_emails, similarity_threshold,
                                  file_no)
    IN /\ is_unique(email, unique_emails)
       /\ batch_full(queued)
       /\ seen' = seen + 1
       /\ unique_emails' = unique_emails \cup {lower(email)}
       /\ accepted' = accepted \cup {[email |-> email, file |-> file_no]}
       /\ current_batch' = queued
       /\ all_emails' = st.all
       /\ report' = st.report
       /\ processed_count' = st.count
       /\ pools' = st.pools
       /\ first_failure' = note_failure(Len(st.report), seen + 1)

\* parse_csv_file: the size-triggered process_batch raises; the except clause
\* of line 204 catches it and the scan of the file is over
CsvFlushFails ==
    /\ ~aborted
    /\ pc = "csv"
    /\ seen < MaxSeen
    /\ first_failure = << >>
    /\ \E email \in CsvCandidates :
           \E done \in 0..(Len(current_batch) + 1) :
               candidate_step_fails(email, done)
    /\ pc' = "flush"
    /\ last_end' = "error"
    /\ UNCHANGED <<excluded_emails, similarity_threshold, file_no, html_phase,
                   html_emails, aborted>>
    /\ UNCHANGED <<load_vars, score_vars, grammar_vars, parser_vars>>

\* parse_html_file: the size-triggered process_batch raises; the except clause
\* of line 224 catches it and the rest of parser.emails is left
HtmlFlushFails ==
    /\ ~aborted
    /\ pc = "html"
    /\ first_failure = << >>
    /\ \E email \in html_emails :
           \E done \in 0..(Len(current_batch) + 1) :
               candidate_step_fails(email, done)
    /\ html_emails' = {}
    /\ pc' = "flush"
    /\ last_end' = "error"
    /\ UNCHANGED <<excluded_emails, similarity_threshold, file_no, html_phase,
                   aborted>>
    /\ UNCHANGED <<load_vars, score_vars, grammar_vars, parser_vars>>

\* process_path after a scan that caught a write failure: the batch is not
\* empty and process_batch is called again, this time with success
FlushAfterFailure ==
    /\ ~aborted
    /\ pc = "flush"
    /\ finish_file("error")
    /\ UNCHANGED <<unique_emails, excluded_emails, similarity_threshold,
                   file_no, html_phase, html_emails, seen, accepted>>
    /\ UNCHANGED other_vars

\* process_path: the process_batch called after parse_file raises after `done`
\* entries; nothing catches the exception
EndFlushFails ==
    /\ ~aborted
    /\ \/ pc \in {"csv", "flush"}
       \/ pc = "html" /\ html_emails = {}
    /\ current_batch # << >>
    /\ \E done \in 0..Len(current_batch) :
           LET st == process_batch_fails(current_batch, done, all_emails,
                         report, processed_count, pools, excluded_emails,
                         similarity_threshold, file_no)
           IN /\ all_emails' = st.all
              /\ report' = st.report
              /\ processed_count' = st.count
              /\ pools' = st.pools
              /\ first_failure' = note_failure(Len(st.report), seen)
    /\ aborted' = TRUE
    /\ pc' = "aborted"
    /\ UNCHANGED <<unique_emails, current_batch, excluded_emails,
                   similarity_threshold, file_no, html_phase, html_emails, seen,
                   last_end, accepted>>
    /\ UNCHANGED <<load_vars, score_vars, grammar_vars, parser_vars>>

Next ==
    \/ StartCsv
    \/ CsvCandidate
    \/ CsvEnd
    \/ CsvReadError
    \/ StartHtml
    \/ HtmlReadError
    \/ HtmlCandidate
    \/ HtmlEnd

Spec == Init /\ [][Next]_vars

\* ------------------------------------------------------------ the scorer
InitScore ==
    /\ InitCollector
    /\ excluded_emails = {}
    /\ pc = "score"

\* calculate_malformation_probability applied to one address
Score ==
    /\ pc = "score"
    /\ \E email \in ScoreInputs :
           /\ scored' = email
           /\ probability' = calculate_malformation_probability(email)
    /\ UNCHANGED <<run_vars, io_vars, load_vars, grammar_vars, parser_vars>>

SpecScore == InitScore /\ [][Score]_vars

\* ------------------------------------------------------------ the patterns
InitGrammar ==
    /\ InitCollector
    /\ excluded_emails = {}
    /\ pc = "grammar"

\* one text fragment scanned by the pattern of EmailParser (a CSV cell) and by
\* the pattern of EmailHTMLParser; each behaviour scans one fragment
Scan ==
    /\ pc = "grammar"
    /\ fragment = << >>
    /\ \E text \in Fragments :
           /\ fragment' = text
           /\ csv_found' = findall(text, FALSE)
           /\ html_found' = findall(text, TRUE)
    /\ UNCHANGED <<run_vars, io_vars, load_vars, score_vars, parser_vars>>

SpecGrammar == InitGrammar /\ [][Scan]_vars

\* ------------------------------------------------------- EmailHTMLParser
\* the tags, attribute values (<< >> is a missing or empty value) and text
\* fragments of the events
Tags == {"pre", "b"}

AttrValues == {<< >>, e_xyz}

Texts == {<<"a">>, <<"@">>, <<"b", ".", "c">>}

\* ''.join(parts)
RECURSIVE join(_)
join(parts) ==
    IF parts = << >> THEN << >> ELSE Head(parts) \o join(Tail(parts))

\* the set that self.emails.update(found_emails) adds
found_set(text) ==
    LET found_emails == findall(text, TRUE)
    IN {found_emails[i] : i \in DOMAIN found_emails}

\* EmailHTMLParser.__init__
InitParser ==
    /\ InitCollector
    /\ excluded_emails = {}
    /\ pc = "parser"

\* handle_starttag with one attribute; open_pre holds, for every pre tag that
\* is open, the text received since it was opened
handle_starttag(tag, value) ==
    /\ parser_emails' = IF value # << >>
                        THEN parser_emails \cup found_set(value)
                        ELSE parser_emails
    /\ in_pre' = IF tag = "pre" THEN TRUE ELSE in_pre
    /\ open_pre' = IF tag = "pre" THEN Append(open_pre, << >>) ELSE open_pre
    /\ UNCHANGED <<current_pre_content, pre_unit>>

\* handle_endtag; pre_unit records, at a closing pre tag that has an opening
\* one, the text scanned as one unit, the text received since that opening
\* tag and the buffer left
handle_endtag(tag) ==
    IF tag = "pre"
    THEN LET full_content == join(current_pre_content)
         IN /\ in_pre' = FALSE
            /\ parser_emails' = parser_emails \cup found_set(full_content)
            /\ current_pre_content' = << >>
            /\ IF open_pre # << >>
               THEN /\ pre_unit' = [scanned |-> full_content,
                                   expected |-> open_pre[Len(open_pre)],
                                   buffer |-> << >>]
                    /\ open_pre' = SubSeq(open_pre, 1, Len(open_pre) - 1)
               ELSE UNCHANGED <<pre_unit, open_pre>>
    ELSE UNCHANGED <<in_pre, parser_emails, current_pre_content, pre_unit,
                     open_pre>>

\* handle_data
handle_data(data) ==
    /\ current_pre_content' = IF in_pre
                              THEN Append(current_pre_content, data)
                              ELSE current_pre_content
    /\ parser_emails' = parser_emails \cup found_set(data)
    /\ open_pre' = [k \in DOMAIN open_pre |-> open_pre[k] \o data]
    /\ UNCHANGED <<in_pre, pre_unit>>

StartTag ==
    /\ pc = "parser"
    /\ events < MaxEvents
    /\ \E tag \in Tags : \E value \in AttrValues : handle_starttag(tag, value)
    /\ events' = events + 1
    /\ UNCHANGED <<run_vars, io_vars, load_vars, score_vars, grammar_vars>>

EndTag ==
    /\ pc = "parser"
    /\ events < MaxEvents
    /\ \E tag \in Tags : handle_endtag(tag)
    /\ events' = events + 1
    /\ UNCHANGED <<run_vars, io_vars, load_vars, score_vars, grammar_vars>>

Data ==
    /\ pc = "parser"
    /\ events < MaxEvents
    /\ \E data \in Texts : handle_data(data)
    /\ events' = events + 1
    /\ UNCHANGED <<run_vars, io_vars, load_vars, score_vars, grammar_vars>>

NextHtml ==
    \/ StartTag
    \/ EndTag
    \/ Data

SpecHtml == InitParser /\ [][NextHtml]_vars

\* the run from the loading of the exclude list on
NextLoad ==
    \/ LoadRow
    \/ LoadEnd
    \/ LoadError
    \/ Next

SpecLoad == InitLoad /\ [][NextLoad]_vars

\* the run when writes to the output file can fail
NextIO ==
    \/ Next
    \/ CsvFlushFails
    \/ HtmlFlushFails
    \/ FlushAfterFailure
    \/ EndFlushFails

SpecIO == Init /\ [][NextIO]_vars

TypeOK ==
    /\ unique_emails \subseteq {lower(e) : e \in Emails}
    /\ processed_count \in Nat
    /\ similarity_threshold \in Thresholds
    /\ pc \in {"load", "idle", "csv", "html", "flush", "aborted", "score",
              "grammar", "parser"}
    /\ file_no \in 0..MaxFiles
    /\ html_emails \subseteq Emails
    /\ seen \in 0..MaxSeen
    /\ Len(pools) = Len(report)
    /\ last_end \in {"none", "eof", "error"}

\* ------------------------------------------------------------- properties
Rows == 1..Len(report)

\* some candidate was dropped as a duplicate
SomeDuplicateDrop == seen > Cardinality(unique_emails)

IsPrefix(s, t) == Len(s) <= Len(t) /\ \A i \in 1..Len(s) : s[i] = t[i]

\* C1: the report never holds two rows whose Email Address values are equal
\* after case-folding
C1_NoDuplicateRows ==
    \A i, j \in Rows :
        i # j => lower(report[i].email) # lower(report[j].email)

\* the same address came twice and has exactly one row
C1_Witness ==
    /\ pc = "idle"
    /\ seen = 2
    /\ unique_emails = {e_abc}
    /\ Len(report) = 1

\* C2: an address whose case-folded form is in the exclude set is never the
\* Email Address of a report row
C2_ExcludedNeverWritten ==
    \A i \in Rows : lower(report[i].email) \notin excluded_emails

\* an excluded address went through a flush that wrote another address
C2_Witness ==
    /\ current_batch = << >>
    /\ \E e \in excluded_emails : e \in unique_emails
    /\ Len(report) >= 1

\* C3: an excluded candidate is never inserted into unique_emails and never
\* appended to all_emails
C3_ExcludedNeverStored ==
    /\ unique_emails \cap excluded_emails = {}
    /\ \A i \in 1..Len(all_emails) : lower(all_emails[i]) \notin excluded_emails

\* C4: once all batches are flushed, processed_count equals the number of
\* candidates seen
C4_CountEqualsSeen ==
    (pc = "idle" /\ current_batch = << >>) => processed_count = seen

\* C5: a non-empty Similar Email is the Email Address of a row written earlier
\* in the report, and never an excluded address
C5_SimilarIsEarlierRow ==
    \A i \in Rows :
        report[i].similar # << >> =>
            /\ \E j \in 1..(i - 1) : report[j].email = report[i].similar
            /\ lower(report[i].similar) \notin excluded_emails

\* the members of pools[i] other than the address of row i
Others(i) == {k \in 1..Len(pools[i]) : pools[i][k] # report[i].email}

\* the members of pools[i] that score at or above the threshold for row i
Eligible(i) ==
    {k \in Others(i) :
        MeetsThreshold(Similarity(report[i].email, pools[i][k]),
                       similarity_threshold)}

\* C6: a row carries a Similar Email exactly when some other pool member
\* scores at or above the threshold, and when none does both similar-email
\* fields are empty
C6_SimilarIffAtThreshold ==
    \A i \in Rows :
        /\ report[i].similar # << >> <=> Eligible(i) # {}
        /\ Eligible(i) = {} => report[i].similar = << >> /\ report[i].pct = << >>

\* the eligible member of pools[i] with the highest score, the first in scan
\* order among equals
FirstBest(i) ==
    CHOOSE k \in Eligible(i) :
        \A m \in Eligible(i) :
            LET sk == Similarity(report[i].email, pools[i][k])
                sm == Similarity(report[i].email, pools[i][m])
            IN \/ SimGreater(sk, sm)
               \/ ~SimGreater(sm, sk) /\ k <= m

\* C7: the Similar Email is the pool member with the highest score among those
\* at or above the threshold, the first in scan order when several share it
C7_HighestFirstWins ==
    \A i \in Rows :
        Eligible(i) # {} => report[i].similar = pools[i][FirstBest(i)]

\* two different pool members share the highest score of some row
C7_Witness ==
    \E i \in Rows :
        /\ Eligible(i) # {}
        /\ \E m \in Eligible(i) :
               /\ pools[i][m] # pools[i][FirstBest(i)]
               /\ ~SimGreater(Similarity(report[i].email, pools[i][FirstBest(i)]),
                              Similarity(report[i].email, pools[i][m]))

\* C8: in every row the Similar Email differs from the row's own Email
\* Address, also after case-folding
C8_NeverSelfMatch ==
    \A i \in Rows : lower(report[i].similar) # lower(report[i].email)

\* a row got a Similar Email while its own address was in the scanned batch
C8_Witness ==
    \E i \in Rows :
        /\ report[i].similar # << >>
        /\ \E k \in 1..Len(pools[i]) : pools[i][k] = report[i].email

\* the state part of C9
HistoryLogKept ==
    /\ \A i \in 1..Len(all_emails) :
           /\ lower(all_emails[i]) \in unique_emails
           /\ lower(all_emails[i]) \notin excluded_emails
    /\ \A i, j \in 1..Len(all_emails) :
           i # j => lower(all_emails[i]) # lower(all_emails[j])

C10_BatchBounded ==
    /\ Len(current_batch) < batch_size
    /\ pc = "idle" =>
           /\ current_batch = << >>
           /\ \A u \in unique_emails \ excluded_emails :
                  \E i \in Rows : lower(report[i].email) = u

\* a scan ended by a caught read error left a short batch, which was flushed
C10_Witness ==
    /\ pc = "idle"
    /\ last_end = "error"
    /\ Len(report) = 1
    /\ Cardinality(unique_emails) = 1

\* C11: a failed write during any flush aborts the run: after the first
\* failure process_path has been left, no further candidate is processed and
\* no further row is written
C11_WriteFailureAborts ==
    first_failure # << >> =>
        /\ aborted
        /\ Len(report) = first_failure.rows
        /\ seen = first_failure.seen

\* C12: when loading the exclude list fails at any point, the run proceeds
\* with an empty exclude set
C12_FailedLoadLeavesEmptySet ==
    load_failed => excluded_emails = {}

\* C13: the row of a group of addresses that differ only in letter case
\* carries the casing of the occurrence that came first, and a later
\* occurrence never replaces it
C13_FirstCasingKept ==
    /\ \A i \in Rows : \E a \in accepted : a.email = report[i].email
    /\ \A a, b \in accepted : lower(a.email) = lower(b.email) => a = b

\* A@b.c came first and has the row, a@b.c came after it and was dropped
C13_Witness ==
    /\ seen = 2
    /\ unique_emails = {e_abc}
    /\ Len(report) = 1
    /\ report[1].email = e_Abc

\* the address scored has no recognized top-level domain, more than 4 domain
\* labels, a local part longer than 64 characters and two or more consecutive
\* characters of . _ % + - in its local part
AllFourSignals ==
    /\ scored # << >>
    /\ suffix_of(scored) = << >>
    /\ Len(split(split(scored, "@")[2], ".")) > 4
    /\ Len(split(scored, "@")[1]) > 64
    /\ has_consecutive_specials(split(scored, "@")[1])

\* C14 as stated: the score of such an address is exactly 1.0
C14_ScoreIsOne ==
    AllFourSignals => probability = 10

\* C14 amended: the score of such an address is exactly 0.7, the sum
\* 0.4 + 0.1 + 0.1 + 0.1 of the fired penalties, below the cap
C14_ScoreIsSevenTenths ==
    AllFourSignals => probability = 7

\* such an address was scored
C14_Witness ==
    AllFourSignals /\ probability = 7

\* C15: the CSV cell scan and the HTML scan yield the same candidates for
\* every fragment, and a fragment that is an address with an upper-case
\* letter, A@b.a, yields that whole address
C15_SameCandidates ==
    /\ csv_found = html_found
    /\ fragment = <<"A", "@", "b", ".", "a">> => csv_found = <<fragment>>

\* C16: a step that drops a candidate as a duplicate (its case-folded form is
\* already in unique_emails) changes only the processed count: the set, the
\* pending batch, the history log and the report stay as they are, and no
\* comparison is made
C16_DuplicateDropFrame ==
    [][(seen' = seen + 1 /\ unique_emails' = unique_emails)
       => /\ current_batch' = current_batch
          /\ all_emails' = all_emails
          /\ report' = report
          /\ pools' = pools
          /\ accepted' = accepted
          /\ processed_count' = processed_count + 1]_vars

\* a duplicate was dropped while rows were written and an address was pending
C16_Witness ==
    /\ SomeDuplicateDrop
    /\ current_batch # << >>
    /\ report # << >>

\* C17: every flush triggered by the batch reaching batch_size appends exactly
\* batch_size rows to the report
C17_FullFlushRows ==
    [][(/\ seen' = seen + 1
        /\ unique_emails' # unique_emails
        /\ Len(current_batch) + 1 >= batch_size)
       => Len(report') = Len(report) + batch_size]_vars

\* C19: in every row the Similar Email and Similarity Percentage fields are
\* both populated or both empty, whatever the threshold and the pool
C19_SimilarFieldsTogether ==
    \A i \in Rows : (report[i].similar = << >>) <=> (report[i].pct = << >>)

\* C20: the Source File of every row is the file in which the address of the
\* row was accepted, and no address stays queued across a file boundary
C20_SourceIsAcceptingFile ==
    /\ \A i \in Rows :
           \E a \in accepted :
               a.email = report[i].email /\ a.file = report[i].source
    /\ pc = "idle" => current_batch = << >>

\* two files gave rows, and a candidate was dropped as a duplicate
C20_Witness ==
    /\ \E i, j \in Rows : report[i].source # report[j].source
    /\ SomeDuplicateDrop
    /\ pc = "idle"

\* C18: at each closing pre tag the text scanned as one unit is all the text
\* received since the matching opening pre tag, also when further pre tags
\* are nested inside, and the gathered buffer is empty afterwards
C18_PreBlockScannedWhole ==
    pre_unit # << >>
        => /\ pre_unit.scanned = pre_unit.expected
           /\ pre_unit.buffer = << >>

====
